---- MODULE Spec2Model ----
(***************************************************************************)
(* The session orchestration layer of the DuckDB web shell                 *)
(* (packages/duckdb-wasm-shell/crate/src/shell.rs): the thread-local Shell *)
(* singleton, the key router on_key, the foreground tasks on_command and   *)
(* on_sql, the background highlight tasks and configure_database.          *)
(*                                                                         *)
(* Scheduling.  Everything runs on one thread.  A step of the model is one *)
(* uninterrupted run of Rust code: a call from the host (a key event,      *)
(* configure_database, resume_after_input, attach) up to its return, or    *)
(* one poll of a spawned task from one await to the next.  spawn_local     *)
(* queues the first poll of a task as a microtask, which runs before the   *)
(* host delivers anything else; a task at pc "spawned" therefore runs      *)
(* before any other step.                                                  *)
(*                                                                         *)
(* Panics.  The crate is built for wasm32, where a panic traps: the task   *)
(* that panicked is never polled again and neither destructors nor defer!  *)
(* blocks run.  The trap is recorded in `fault`.                           *)
(*                                                                         *)
(* Text is a sequence of one-character strings.                            *)
(***************************************************************************)
EXTENDS Integers, Sequences, FiniteSets, TLC

VARIABLES
    settings,       \* Shell.settings: [timer]
    runtime,        \* Shell.runtime: "None" or "Some"
    input,          \* Shell.input, the PromptBuffer: [text, marked, hl]
    input_enabled,  \* Shell.input_enabled
    input_clock,    \* Shell.input_clock
    history,        \* Shell.history
    db,             \* Shell.db: 0 for None, else the engine handle
    db_conn,        \* Shell.db_conn: 0 for None, else the engine the connection was opened on
    tasks,          \* the futures that were spawned or called and have not finished
    out,            \* what the last step wrote to the terminal
    fault,          \* the panic the last step raised, "none" if it raised none
    step,           \* history variable: the handler or poll the last step ran, and how it ended
    done,           \* history variable: the texts of the exit actions run, in order
    ndb,            \* number of engine handles given to configure_database so far
    keysLeft,       \* number of key events the model still accepts
    submitted       \* history variable: the texts submitted by Enter, in order

session == <<settings, runtime, input, input_enabled, input_clock, history, db, db_conn>>
vars == <<settings, runtime, input, input_enabled, input_clock, history, db, db_conn,
          tasks, out, fault, step, done, ndb, keysLeft, submitted>>

(***************************************************************************)
(* Program constant and bounds                                             *)
(***************************************************************************)
HISTORY_LENGTH == 1000

\* accepted key events per behaviour
MaxKeys == 3
\* engine handles passed to configure_database per behaviour
MaxDb == 1
\* highlight requests in flight at once
MaxHl == 2
\* engine handles passed to configure_database per behaviour of AttachSpec
MaxAttach == 2


(***************************************************************************)
(* str methods used by the shell                                           *)
(***************************************************************************)
Whitespace == {" ", "\n"}

RECURSIVE trim_start(_)
trim_start(s) ==
    IF s # <<>> /\ Head(s) \in Whitespace THEN trim_start(Tail(s)) ELSE s

RECURSIVE trim_end(_)
trim_end(s) ==
    IF s # <<>> /\ s[Len(s)] \in Whitespace
    THEN trim_end(SubSeq(s, 1, Len(s) - 1))
    ELSE s

trim(s) == trim_end(trim_start(s))

starts_with(s, p) == Len(s) >= Len(p) /\ SubSeq(s, 1, Len(p)) = p

ends_with(s, p) == Len(s) >= Len(p) /\ SubSeq(s, Len(s) - Len(p) + 1, Len(s)) = p

\* s.find(" ").unwrap_or(s.len()): the number of characters before the first space
find_space(s) ==
    IF \E i \in 1..Len(s) : s[i] = " "
    THEN (CHOOSE i \in 1..Len(s) : s[i] = " " /\ \A j \in 1..(i - 1) : s[j] # " ") - 1
    ELSE Len(s)

\* msg.replace("\n", "\r\n")
RECURSIVE replace_nl(_)
replace_nl(s) ==
    IF s = <<>> THEN <<>>
    ELSE IF Head(s) = "\n" THEN <<"\r", "\n">> \o replace_nl(Tail(s))
    ELSE <<Head(s)>> \o replace_nl(Tail(s))

\* the first whitespace-delimited token of a command line, and the rest
command_name(text) == SubSeq(trim(text), 1, find_space(trim(text)))

command_args(text) ==
    trim(SubSeq(trim(text), Len(command_name(text)) + 1, Len(trim(text))))

(***************************************************************************)
(* The texts entered                                                       *)
(***************************************************************************)
DotClear  == <<".", "c", "l", "e", "a", "r">>
DotHelp   == <<".", "h", "e", "l", "p">>
DotQuit   == <<".", "q", "u", "i", "t">>
DotConfig == <<".", "c", "o", "n", "f", "i", "g">>
DotTimer  == <<".", "t", "i", "m", "e", "r">>
DotFstats == <<".", "f", "s", "t", "a", "t", "s">>
DotFiles  == <<".", "f", "i", "l", "e", "s">>

\* the texts typed key by key
Scripts ==
    { <<";">>,
      <<"a", ";">>,
      <<"a", "\n", ";">>,
      <<".">> }

\* texts in the buffer when Enter is pressed, beside the command lines
TypedTexts ==
    { <<";">>,
      <<";", " ">>,
      <<" ", "a", ";", "\n">>,
      <<"a", "\n", ";">>,
      <<".", ";">>,
      <<" ", ".">>,
      <<"\n", ".", "x", ";">>,
      <<"a">>,
      <<" ">>,
      <<";", "a">>,
      <<"a", ".">> }

\* the command lines submitted
CommandLines ==
    { DotClear,
      DotHelp,
      DotQuit,
      DotConfig,
      DotFiles,
      DotTimer,
      DotTimer \o <<" ", "o", "n">>,
      DotTimer \o <<" ", "o", "f", "f">>,
      DotTimer \o <<" ", "x", "o", "n">>,
      DotTimer \o <<" ", "x">>,
      DotFstats \o <<" ", "e", "n", "a", "b", "l", "e", " ", "f">>,
      DotFstats \o <<" ", "d", "i", "s", "a", "b", "l", "e">>,
      DotFstats \o <<" ", "r", "e", "s", "e", "t">>,
      DotFstats \o <<" ", "r", "e", "a", "d", "s">>,
      DotFstats \o <<" ", "x">> }

Prefixes == UNION {{SubSeq(s, 1, n) : n \in 0..Len(s)} : s \in Scripts}

Chars == (UNION {{s[i] : i \in 1..Len(s)} : s \in Scripts}) \ {"\n"}

ArrowKeys == {"ArrowDown", "ArrowLeft", "ArrowRight", "ArrowUp"}

Keys == Chars \cup ArrowKeys \cup {"Enter", "Backspace"}

\* the phases other than "keydown" are delivered for one key only
Events == [type : {"keydown"}, key : Keys] \cup [type : {"keyup", "keypress"}, key : {"Enter"}]

\* the error messages an engine call fails with
ErrorMessages == {<<"e", "\n", "r">>}

\* the feature bitmasks the engine reports
FeatureFlags == {0, 1}

(***************************************************************************)
(* The prompt buffer (crate::prompt_buffer, not part of this file): its    *)
(* text and the highlight markup last applied to it.  Characters are       *)
(* entered at the end of the text; the cursor is not modelled.             *)
(***************************************************************************)
start_new == [text |-> <<>>, marked |-> FALSE, hl |-> <<>>]

collect(b) == b.text

consume(b, key) ==
    CASE key = "Enter" -> [b EXCEPT !.text = Append(@, "\n")]
      [] key = "Backspace" ->
            [b EXCEPT !.text = IF @ = <<>> THEN @ ELSE SubSeq(@, 1, Len(@) - 1)]
      [] key \in ArrowKeys -> b
      [] OTHER -> [b EXCEPT !.text = Append(@, key)]

highlight_sql(b, tokens) == [b EXCEPT !.marked = TRUE, !.hl = tokens]

\* the tokens the engine returns for a text, named by the text they were computed from
tokenize(text) == text

(***************************************************************************)
(* Terminal output                                                         *)
(***************************************************************************)
W(m) == [msg |-> m, arg |-> <<>>]

Wa(m, a) == [msg |-> m, arg |-> a]

\* PromptBuffer::flush of a buffer that start_new has just reset
PromptLine == W("<prompt>")

\* PromptBuffer::flush of the buffer being edited
FlushLine == W("<flush>")

(***************************************************************************)
(* Tasks                                                                   *)
(***************************************************************************)
Task(kind, pc, text, clock, d, tm) ==
    [kind |-> kind, pc |-> pc, text |-> text, clock |-> clock, db |-> d, timer |-> tm]

Remove(seq, i) == SubSeq(seq, 1, i - 1) \o SubSeq(seq, i + 1, Len(seq))

Foreground == {"on_command", "on_sql"}

\* a task queued by spawn_local whose first poll has not run yet
Spawned == \E i \in DOMAIN tasks : tasks[i].pc = "spawned"

NumHighlights == Cardinality({i \in DOMAIN tasks : tasks[i].kind = "highlight_input"})

\* RefCell::borrow_mut while the session is borrowed
BorrowMutError == "with_mut: already borrowed"

\* A trap inside a borrow never releases the RefCell: every later entry into the
\* session traps on it again, and the session takes no further step.
Alive == fault # BorrowMutError

\* the awaits on calls of the engine or of a connection
EngineCalls ==
    {"run_query", "tokenize", "get_version", "get_feature_flags",
     "enable_file_statistics", "export_file_statistics"}

\* The RwLock read guards that are locals of task t where it is suspended: the
\* guard `conn` of on_sql on the connection, and the guard `db` of
\* highlight_input, write_version_info, configure_command and fstats_command on
\* the engine handle.  Each is taken before the first engine call and lives to the
\* end of the function.  connect takes the Arc itself, and no guard is held there.
read_guards(t) ==
    IF t.pc = "run_query" THEN {[lock |-> "db_conn", handle |-> t.db]}
    ELSE IF t.pc \in EngineCalls THEN {[lock |-> "db", handle |-> t.db]}
    ELSE {}

(***************************************************************************)
(* Shell::default                                                          *)
(***************************************************************************)
\* a session constructed with input enabled
Init_input_enabled ==
    /\ settings = [timer |-> FALSE]
    /\ runtime = "None"
    /\ input = start_new
    /\ input_enabled = TRUE
    /\ input_clock = 0
    /\ history = <<>>
    /\ db = 0
    /\ db_conn = 0
    /\ tasks = <<>>
    /\ out = <<>>
    /\ fault = "none"
    /\ step = "default"
    /\ done = <<>>
    /\ submitted = <<>>
    /\ ndb = 0
    /\ keysLeft = MaxKeys

Init ==
    /\ settings = [timer |-> FALSE]
    /\ runtime = "None"
    /\ input = start_new
    /\ input_enabled = FALSE
    /\ input_clock = 0
    /\ history = <<>>
    /\ db = 0
    /\ db_conn = 0
    /\ tasks = <<>>
    /\ out = <<>>
    /\ fault = "none"
    /\ step = "default"
    /\ done = <<>>
    /\ submitted = <<>>
    /\ ndb = 0
    /\ keysLeft = MaxKeys

(***************************************************************************)
(* Shell::attach: stores the runtime and registers on_key with the         *)
(* terminal.  The embedding attaches once.                                 *)
(***************************************************************************)
attach ==
    /\ runtime = "None"
    /\ Alive
    /\ ~Spawned
    /\ runtime' = "Some"
    /\ out' = <<>>
    /\ fault' = "none"
    /\ step' = "attach"
    /\ UNCHANGED <<settings, input, input_enabled, input_clock, history, db, db_conn,
                   tasks, done, ndb, keysLeft, submitted>>

(***************************************************************************)
(* Shell::prompt and its callers                                           *)
(***************************************************************************)
prompt ==
    /\ input' = start_new
    /\ input_enabled' = TRUE

block_input == input_enabled' = FALSE

resume_after_input ==
    /\ Alive
    /\ ~Spawned
    /\ prompt
    /\ out' = <<PromptLine>>
    /\ fault' = "none"
    /\ step' = "resume_after_input"
    /\ UNCHANGED <<settings, runtime, input_clock, history, db, db_conn,
                   tasks, done, ndb, keysLeft, submitted>>

\* Shell::clear writes the clear sequence and prompts
clear_output == <<W("<clear>"), PromptLine>>

(***************************************************************************)
(* The deferred block of on_command and on_sql                             *)
(***************************************************************************)
history_push(h, text) ==
    LET h1 == Append(h, text)
    IN  IF Len(h1) > HISTORY_LENGTH THEN Tail(h1) ELSE h1

exit_output == <<W(""), PromptLine>>

exit_action(text) ==
    /\ history' = history_push(history, text)
    /\ done' = Append(done, text)
    /\ prompt

\* a task that suspends or traps leaves these as they are
no_exit == UNCHANGED <<input, input_enabled, history, done>>

(***************************************************************************)
(* Shell::highlight_input, called by on_key after it consumed the key into *)
(* buffer b at generation clock: what becomes of tasks and fault.  The     *)
(* spawned task takes the read guard and suspends in tokenize.             *)
(***************************************************************************)
\* highlight_input without the test for the command prefix
highlight_input_any_text(b, clock) ==
    IF db = 0
    THEN /\ fault' = "highlight_input: unwrap on None"
         /\ step' = "on_key: other key, panic"
         /\ UNCHANGED tasks
    ELSE /\ NumHighlights < MaxHl
         /\ tasks' = Append(tasks, Task("highlight_input", "tokenize", collect(b), clock, db, FALSE))
         /\ fault' = "none"
         /\ step' = "on_key: other key, highlight"

highlight_input(b, clock) ==
    IF starts_with(trim_start(collect(b)), <<".">>)
    THEN /\ fault' = "none"
         /\ step' = "on_key: other key, no highlight"
         /\ UNCHANGED tasks
    ELSE IF db = 0
    THEN /\ fault' = "highlight_input: unwrap on None"
         /\ step' = "on_key: other key, panic"
         /\ UNCHANGED tasks
    ELSE /\ NumHighlights < MaxHl
         /\ tasks' = Append(tasks, Task("highlight_input", "tokenize", collect(b), clock, db, FALSE))
         /\ fault' = "none"
         /\ step' = "on_key: other key, highlight"

\* highlight_write_back without the generation check
highlight_write_back_unchecked(b, clock, captured, tokens) ==
    [input |-> highlight_sql(b, tokens), out |-> <<FlushLine>>,
     step |-> IF clock # captured THEN "highlight_input: stale"
              ELSE "highlight_input: applied"]

\* the write-back of a highlight task whose tokenize call returned tokens:
\* the buffer afterwards and what was written
highlight_write_back(b, clock, captured, tokens) ==
    IF clock # captured
    THEN [input |-> b, out |-> <<>>, step |-> "highlight_input: stale"]
    ELSE [input |-> highlight_sql(b, tokens), out |-> <<FlushLine>>,
          step |-> "highlight_input: applied"]

\* the resumption of a highlight task when tokenize returns
highlight_resume(i, ok) ==
    /\ Alive
    /\ ~Spawned
    /\ tasks[i].kind = "highlight_input"
    /\ tasks[i].pc = "tokenize"
    /\ tasks' = Remove(tasks, i)
    /\ IF ok
       THEN LET r == highlight_write_back(input, input_clock, tasks[i].clock,
                                          tokenize(tasks[i].text))
            IN  /\ input' = r.input
                /\ out' = r.out
                /\ step' = r.step
       ELSE /\ out' = <<>>
            /\ step' = "highlight_input: tokenize failed"
            /\ UNCHANGED input
    /\ fault' = "none"
    /\ UNCHANGED <<settings, runtime, input_enabled, input_clock, history, db, db_conn,
                   done, ndb, keysLeft, submitted>>

(***************************************************************************)
(* Shell::on_key                                                           *)
(***************************************************************************)
\* a generation counter one bit wide
next_clock_wrapping(c) == (c + 1) % 2

\* s.input_clock += 1
next_clock(c) == c + 1

\* Key::Enter testing for the semicolon before the command prefix
on_key_enter_query_first ==
    LET text == collect(input)
    IN  IF ends_with(trim_end(text), <<";">>)
        THEN /\ block_input
             /\ tasks' = Append(tasks, Task("on_sql", "spawned", text, 0, 0, FALSE))
             /\ out' = <<>>
             /\ fault' = "none"
             /\ step' = "on_key: Enter, query"
             /\ submitted' = Append(submitted, text)
             /\ UNCHANGED input
        ELSE IF starts_with(trim_start(text), <<".">>)
        THEN /\ block_input
             /\ tasks' = Append(tasks, Task("on_command", "spawned", text, 0, 0, FALSE))
             /\ out' = <<>>
             /\ fault' = "none"
             /\ step' = "on_key: Enter, command"
             /\ submitted' = Append(submitted, text)
             /\ UNCHANGED input
        ELSE /\ Append(text, "\n") \in Prefixes \/ text \in TypedTexts
             /\ input' = consume(input, "Enter")
             /\ out' = <<FlushLine>>
             /\ fault' = "none"
             /\ step' = "on_key: Enter, newline"
             /\ UNCHANGED <<input_enabled, tasks, submitted>>

\* Key::Enter
on_key_enter ==
    LET text == collect(input)
    IN  IF starts_with(trim_start(text), <<".">>)
        THEN /\ block_input
             /\ tasks' = Append(tasks, Task("on_command", "spawned", text, 0, 0, FALSE))
             /\ out' = <<>>
             /\ fault' = "none"
             /\ step' = "on_key: Enter, command"
             /\ submitted' = Append(submitted, text)
             /\ UNCHANGED input
        ELSE IF ends_with(trim_end(text), <<";">>)
        THEN /\ block_input
             /\ tasks' = Append(tasks, Task("on_sql", "spawned", text, 0, 0, FALSE))
             /\ out' = <<>>
             /\ fault' = "none"
             /\ step' = "on_key: Enter, query"
             /\ submitted' = Append(submitted, text)
             /\ UNCHANGED input
        ELSE /\ Append(text, "\n") \in Prefixes \/ text \in TypedTexts
             /\ input' = consume(input, "Enter")
             /\ out' = <<FlushLine>>
             /\ fault' = "none"
             /\ step' = "on_key: Enter, newline"
             /\ UNCHANGED <<input_enabled, tasks, submitted>>

\* Key::Backspace and the arrow keys
on_key_edit(key) ==
    /\ input' = consume(input, key)
    /\ out' = <<FlushLine>>
    /\ fault' = "none"
    /\ step' = "on_key: edit key"
    /\ UNCHANGED <<input_enabled, tasks, submitted>>

\* every other key
on_key_other(key) ==
    /\ Append(input.text, key) \in Prefixes
    /\ input' = consume(input, key)
    /\ out' = <<FlushLine>>
    /\ highlight_input(consume(input, key), next_clock(input_clock))
    /\ UNCHANGED <<input_enabled, submitted>>

\* on_key without the check of the event type
dropped_by_flag_only(e) == ~input_enabled

\* the events on_key drops
dropped(e) == ~input_enabled \/ e.type # "keydown"

on_key(e) ==
    /\ runtime = "Some"
    /\ Alive
    /\ ~Spawned
    /\ IF dropped(e)
       THEN /\ out' = <<>>
            /\ fault' = "none"
            /\ step' = "on_key: dropped"
            /\ UNCHANGED <<session, tasks, done, ndb, keysLeft, submitted>>
       ELSE /\ keysLeft > 0
            /\ keysLeft' = keysLeft - 1
            /\ input_clock' = next_clock(input_clock)
            /\ IF e.key = "Enter" THEN on_key_enter
               ELSE IF e.key \in ArrowKeys \cup {"Backspace"} THEN on_key_edit(e.key)
               ELSE on_key_other(e.key)
            /\ UNCHANGED <<settings, runtime, history, db, db_conn, done, ndb>>

(***************************************************************************)
(* Shell::on_command                                                       *)
(***************************************************************************)
SubEnable  == <<"e", "n", "a", "b", "l", "e">>
SubDisable == <<"d", "i", "s", "a", "b", "l", "e">>
SubReset   == <<"r", "e", "s", "e", "t">>
SubReads   == <<"r", "e", "a", "d", "s">>

fstats_subcmd(args) == SubSeq(args, 1, find_space(args))

fstats_options(args) == trim(SubSeq(args, Len(fstats_subcmd(args)) + 1, Len(args)))

\* the .timer arm: the timer setting and the line written
timer_command(args, timer) ==
    IF ends_with(args, <<"o", "n">>)
    THEN [timer |-> TRUE, msg |-> "Timer enabled"]
    ELSE IF ends_with(args, <<"o", "f", "f">>)
    THEN [timer |-> FALSE, msg |-> "Timer disabled"]
    ELSE [timer |-> timer, msg |-> "Usage: .timer [on/off]"]

\* the commands whose arm suspends in an await
command_suspends(text) ==
    \/ command_name(text) = DotConfig
    \/ /\ command_name(text) = DotFstats
       /\ db # 0
       /\ fstats_subcmd(command_args(text)) \in {SubEnable, SubDisable, SubReads}

\* where such a command suspends first
command_await(text) ==
    IF command_name(text) = DotConfig THEN "platform"
    ELSE IF fstats_subcmd(command_args(text)) = SubReads THEN "export_file_statistics"
    ELSE "enable_file_statistics"

\* what the arm of a command that does not suspend writes
command_output(text) ==
    LET cmd == command_name(text)
        args == command_args(text)
    IN  IF cmd = DotClear THEN clear_output
        ELSE IF cmd \in {DotHelp, DotQuit} THEN <<W("Not implemented yet")>>
        ELSE IF cmd = DotTimer THEN <<W(timer_command(args, settings.timer).msg)>>
        ELSE IF cmd = DotFstats
        THEN IF db = 0 THEN <<>>
             ELSE IF fstats_subcmd(args) = SubReset
             THEN <<Wa("Resetted file statistics for: ", fstats_options(args))>>
             ELSE <<Wa("Resetted file statistics for: ", fstats_options(args)),
                    W("Usage: .fstats [enable/disable/reset/reads/paging] <file>")>>
        ELSE IF cmd = DotFiles
        THEN IF runtime = "Some" THEN <<>> ELSE <<W("Shell runtime not set")>>
        ELSE <<Wa("Unknown command: ", cmd)>>

\* the settings after the arm of a command that does not suspend
command_settings(text) ==
    IF command_name(text) = DotTimer
    THEN [settings EXCEPT !.timer = timer_command(command_args(text), @).timer]
    ELSE settings

\* What the host's open_file_explorer does before it returns.  It is called by the
\* .files arm inside Shell::with_mut; it either returns without entering the
\* session, or calls resume_after_input, the entry point the host uses to report
\* the end of the file input.
open_file_explorer == {"returns", "resume_after_input"}

\* the first poll of on_command
on_command(i) ==
    LET text == tasks[i].text
    IN  /\ tasks[i].kind = "on_command"
        /\ tasks[i].pc = "spawned"
        /\ IF command_suspends(text)
           THEN /\ tasks' = [tasks EXCEPT ![i].pc = command_await(text),
                                          ![i].db = IF command_name(text) = DotFstats
                                                    THEN db ELSE @]
                /\ out' = <<W("")>>
                /\ step' = "on_command: await"
                /\ fault' = "none"
                /\ no_exit
                /\ UNCHANGED settings
           ELSE \E call \in open_file_explorer :
                  IF /\ command_name(text) = DotFiles
                     /\ runtime = "Some"
                     /\ call = "resume_after_input"
                  THEN /\ tasks' = Remove(tasks, i)
                       /\ out' = <<W("")>>
                       /\ step' = "on_command: panic"
                       /\ fault' = BorrowMutError
                       /\ no_exit
                       /\ UNCHANGED settings
                  ELSE /\ tasks' = Remove(tasks, i)
                       /\ settings' = command_settings(text)
                       /\ out' = <<W("")>> \o command_output(text) \o exit_output
                       /\ step' = "on_command: exit"
                       /\ fault' = "none"
                       /\ exit_action(text)
        /\ UNCHANGED <<runtime, input_clock, db, db_conn, ndb, keysLeft, submitted>>

\* configure_command resumes from PlatformFeatures::get
configure_command_platform(i) ==
    /\ Alive
    /\ ~Spawned
    /\ tasks[i].kind = "on_command"
    /\ tasks[i].pc = "platform"
    /\ IF db = 0
       THEN /\ tasks' = Remove(tasks, i)
            /\ out' = exit_output
            /\ step' = "on_command: exit"
            /\ exit_action(tasks[i].text)
       ELSE /\ tasks' = [tasks EXCEPT ![i].pc = "get_feature_flags", ![i].db = db]
            /\ out' = <<>>
            /\ step' = "on_command: await"
            /\ no_exit
    /\ fault' = "none"
    /\ UNCHANGED <<settings, runtime, input_clock, db, db_conn, ndb, keysLeft, submitted>>

\* the line a command writes when the engine call it awaited returns Ok
command_result(text, pc) ==
    IF pc = "get_feature_flags" THEN W("<feature report>")
    ELSE IF pc = "export_file_statistics"
    THEN Wa("<read stats>", fstats_options(command_args(text)))
    ELSE IF fstats_subcmd(command_args(text)) = SubEnable
    THEN Wa("Enabled file statistics for: ", fstats_options(command_args(text)))
    ELSE Wa("Disabled file statistics for: ", fstats_options(command_args(text)))

\* on_command resumes from an engine call whose result it unwraps:
\* get_feature_flags of .config, enable_file_statistics and export_file_statistics of .fstats
command_resume(i, ok) ==
    /\ Alive
    /\ ~Spawned
    /\ tasks[i].kind = "on_command"
    /\ tasks[i].pc \in {"get_feature_flags", "enable_file_statistics", "export_file_statistics"}
    /\ tasks' = Remove(tasks, i)
    /\ IF ok
       THEN /\ out' = <<command_result(tasks[i].text, tasks[i].pc)>> \o exit_output
            /\ exit_action(tasks[i].text)
            /\ fault' = "none"
            /\ step' = "on_command: exit"
       ELSE /\ out' = <<>>
            /\ fault' = "on_command: unwrap on Err"
            /\ step' = "on_command: panic"
            /\ no_exit
    /\ UNCHANGED <<settings, runtime, input_clock, db, db_conn, ndb, keysLeft, submitted>>

(***************************************************************************)
(* Shell::on_sql                                                           *)
(***************************************************************************)
\* on_sql running the query whether or not a connection is stored
on_sql_without_check(i) ==
    /\ tasks[i].kind = "on_sql"
    /\ tasks[i].pc = "spawned"
    /\ tasks' = [tasks EXCEPT ![i].pc = "run_query",
                              ![i].db = db_conn,
                              ![i].timer = settings.timer]
    /\ out' = <<W("")>>
    /\ step' = "on_sql: await"
    /\ no_exit
    /\ fault' = "none"
    /\ UNCHANGED <<settings, runtime, input_clock, db, db_conn, ndb, keysLeft, submitted>>

\* the first poll of on_sql
on_sql(i) ==
    /\ tasks[i].kind = "on_sql"
    /\ tasks[i].pc = "spawned"
    /\ IF db_conn = 0
       THEN /\ tasks' = Remove(tasks, i)
            /\ out' = <<W(""), W("Error: connection not set")>> \o exit_output
            /\ step' = "on_sql: exit"
            /\ exit_action(tasks[i].text)
       ELSE /\ tasks' = [tasks EXCEPT ![i].pc = "run_query",
                                      ![i].db = db_conn,
                                      ![i].timer = settings.timer]
            /\ out' = <<W("")>>
            /\ step' = "on_sql: await"
            /\ no_exit
    /\ fault' = "none"
    /\ UNCHANGED <<settings, runtime, input_clock, db, db_conn, ndb, keysLeft, submitted>>

\* what on_sql writes when run_query returns
query_output(ok, msg, use_timer) ==
    IF ok
    THEN <<W("<table>")>> \o
         (IF settings.timer
          THEN <<W(IF use_timer THEN "Elapsed: <measured>" ELSE "Elapsed: <zero>")>>
          ELSE <<>>)
    ELSE <<Wa("Error: ", replace_nl(msg) \o <<"\r", "\n">>)>>

\* on_sql resumes from run_query
on_sql_resume(i, ok, msg) ==
    /\ Alive
    /\ ~Spawned
    /\ tasks[i].kind = "on_sql"
    /\ tasks[i].pc = "run_query"
    /\ tasks' = Remove(tasks, i)
    /\ out' = query_output(ok, msg, tasks[i].timer) \o exit_output
    /\ step' = "on_sql: exit"
    /\ exit_action(tasks[i].text)
    /\ fault' = "none"
    /\ UNCHANGED <<settings, runtime, input_clock, db, db_conn, ndb, keysLeft, submitted>>

(***************************************************************************)
(* Shell::configure_database and Shell::write_version_info                 *)
(***************************************************************************)
\* configure_database storing the handle before it looks at the connection
configure_database_stores_first(d) ==
    /\ Alive
    /\ ~Spawned
    /\ d = ndb + 1
    /\ IF db_conn # 0
       THEN /\ out' = <<W("Error: Database already set!")>>
            /\ step' = "configure_database: rejected"
            /\ db' = d
            /\ UNCHANGED <<db_conn, tasks, ndb>>
       ELSE /\ ndb' = d
            /\ db_conn' = 0
            /\ db' = d
            /\ tasks' = Append(tasks, Task("configure_database", "get_version", <<>>, 0, d, FALSE))
            /\ out' = <<>>
            /\ step' = "configure_database: await"
    /\ fault' = "none"
    /\ UNCHANGED <<settings, runtime, input, input_enabled, input_clock, history,
                   done, keysLeft, submitted>>

\* the call with engine handle d, up to the first await (get_version)
configure_database(d) ==
    /\ Alive
    /\ ~Spawned
    /\ d = ndb + 1
    /\ IF db_conn # 0
       THEN /\ out' = <<W("Error: Database already set!")>>
            /\ step' = "configure_database: rejected"
            /\ UNCHANGED <<db, db_conn, tasks, ndb>>
       ELSE /\ ndb' = d
            /\ db_conn' = 0
            /\ db' = d
            /\ tasks' = Append(tasks, Task("configure_database", "get_version", <<>>, 0, d, FALSE))
            /\ out' = <<>>
            /\ step' = "configure_database: await"
    /\ fault' = "none"
    /\ UNCHANGED <<settings, runtime, input, input_enabled, input_clock, history,
                   done, keysLeft, submitted>>

\* what write_version_info writes for a feature bitmask
version_info(flags) ==
    <<W("<DuckDB Web Shell>"), W("<version>")>> \o
    (IF flags % 2 = 0 THEN <<W("<DuckDB is not running at full speed>")>> ELSE <<>>)

\* write_version_info drawing the prompt under the banner, before connect
write_version_info_prompts(i, ok, flags) ==
    /\ Alive
    /\ ~Spawned
    /\ tasks[i].kind = "configure_database"
    /\ tasks[i].pc \in {"get_version", "get_feature_flags"}
    /\ IF ~ok
       THEN /\ tasks' = Remove(tasks, i)
            /\ fault' = "write_version_info: unwrap on Err"
            /\ out' = <<>>
            /\ step' = "configure_database: panic"
            /\ UNCHANGED <<input, input_enabled>>
       ELSE IF tasks[i].pc = "get_version"
       THEN /\ tasks' = [tasks EXCEPT ![i].pc = "get_feature_flags"]
            /\ out' = <<>>
            /\ fault' = "none"
            /\ step' = "configure_database: await"
            /\ UNCHANGED <<input, input_enabled>>
       ELSE /\ tasks' = [tasks EXCEPT ![i].pc = "connect"]
            /\ out' = version_info(flags) \o <<PromptLine>>
            /\ fault' = "none"
            /\ step' = "configure_database: await"
            /\ prompt
    /\ UNCHANGED <<settings, runtime, input_clock, history,
                   db, db_conn, done, ndb, keysLeft, submitted>>

\* write_version_info resumes from get_version, then from get_feature_flags
write_version_info(i, ok, flags) ==
    /\ Alive
    /\ ~Spawned
    /\ tasks[i].kind = "configure_database"
    /\ tasks[i].pc \in {"get_version", "get_feature_flags"}
    /\ IF ~ok
       THEN /\ tasks' = Remove(tasks, i)
            /\ fault' = "write_version_info: unwrap on Err"
            /\ out' = <<>>
            /\ step' = "configure_database: panic"
       ELSE IF tasks[i].pc = "get_version"
       THEN /\ tasks' = [tasks EXCEPT ![i].pc = "get_feature_flags"]
            /\ out' = <<>>
            /\ fault' = "none"
            /\ step' = "configure_database: await"
       ELSE /\ tasks' = [tasks EXCEPT ![i].pc = "connect"]
            /\ out' = version_info(flags)
            /\ fault' = "none"
            /\ step' = "configure_database: await"
    /\ UNCHANGED <<settings, runtime, input, input_enabled, input_clock, history,
                   db, db_conn, done, ndb, keysLeft, submitted>>

\* configure_database drawing the prompt whatever connect returned
configure_database_connect_prompts(i, ok) ==
    /\ Alive
    /\ ~Spawned
    /\ tasks[i].kind = "configure_database"
    /\ tasks[i].pc = "connect"
    /\ tasks' = Remove(tasks, i)
    /\ IF ok
       THEN /\ db_conn' = tasks[i].db
            /\ out' = <<W("<connection ready>"), PromptLine>>
            /\ step' = "configure_database: connected"
       ELSE /\ out' = <<PromptLine>>
            /\ step' = "configure_database: connect failed"
            /\ UNCHANGED db_conn
    /\ prompt
    /\ fault' = "none"
    /\ UNCHANGED <<settings, runtime, input_clock, history, db, done, ndb, keysLeft, submitted>>

\* configure_database resumes from AsyncDuckDB::connect
configure_database_connect(i, ok) ==
    /\ Alive
    /\ ~Spawned
    /\ tasks[i].kind = "configure_database"
    /\ tasks[i].pc = "connect"
    /\ tasks' = Remove(tasks, i)
    /\ IF ok
       THEN /\ db_conn' = tasks[i].db
            /\ out' = <<W("<connection ready>"), PromptLine>>
            /\ step' = "configure_database: connected"
            /\ prompt
       ELSE /\ out' = <<>>
            /\ step' = "configure_database: connect failed"
            /\ UNCHANGED <<db_conn, input, input_enabled>>
    /\ fault' = "none"
    /\ UNCHANGED <<settings, runtime, input_clock, history, db, done, ndb, keysLeft, submitted>>

(***************************************************************************)
(* The specification                                                       *)
(***************************************************************************)
\* the key events the host delivers: the keys that continue a script, and a few more
ProbeKeys == {"a", ";", "Enter", "Backspace", "ArrowLeft", "ArrowUp"}

Delivered ==
    {e \in Events : e.key \in ProbeKeys \/ Append(input.text, e.key) \in Prefixes}

\* calls from the host
Host ==
    \/ resume_after_input
    \/ \E e \in Delivered : on_key(e)
    \/ \E d \in 1..(MaxDb + 1) : configure_database(d) /\ (db_conn # 0 \/ d <= MaxDb)

\* polls of the foreground tasks
ForegroundStep(i) ==
    \/ on_command(i)
    \/ configure_command_platform(i)
    \/ \E ok \in BOOLEAN : command_resume(i, ok)
    \/ on_sql(i)
    \/ \E ok \in BOOLEAN, msg \in ErrorMessages : on_sql_resume(i, ok, msg)

\* polls of the configure_database futures
AttachStep(i) ==
    \/ \E ok \in BOOLEAN, flags \in FeatureFlags : write_version_info(i, ok, flags)
    \/ \E ok \in BOOLEAN : configure_database_connect(i, ok)

Next ==
    \/ attach
    \/ Host
    \/ \E i \in DOMAIN tasks :
          \/ ForegroundStep(i)
          \/ \E ok \in BOOLEAN : highlight_resume(i, ok)
          \/ AttachStep(i)

Spec == Init /\ [][Next]_vars

(***************************************************************************)
(* The session once it is attached and connected.  No configure_database   *)
(* future is in flight then and none is created again, so the steps are    *)
(* those of the host and of the spawned tasks.                             *)
(***************************************************************************)
ConnectedNext ==
    \/ Host
    \/ \E i \in DOMAIN tasks :
          \/ ForegroundStep(i)
          \/ \E ok \in BOOLEAN : highlight_resume(i, ok)

TimerOn == DotTimer \o <<" ", "o", "n">>

\* The states in which a command line has just been typed into the first or the
\* second prompt of a connected session; the second prompt is the one after the
\* submission of ".timer on".
CmdInit ==
    \E line \in CommandLines \cup TypedTexts, tm \in BOOLEAN :
        /\ settings = [timer |-> tm]
        /\ runtime = "Some"
        /\ input = [text |-> line, marked |-> FALSE, hl |-> <<>>]
        /\ input_enabled = TRUE
        /\ input_clock = Len(line) + (IF tm THEN Len(TimerOn) + 1 ELSE 0)
        /\ history = IF tm THEN <<TimerOn>> ELSE <<>>
        /\ db = 1
        /\ db_conn = 1
        /\ tasks = <<>>
        /\ out = <<FlushLine>>
        /\ fault = "none"
        /\ step = "on_key: other key, no highlight"
        /\ done = IF tm THEN <<TimerOn>> ELSE <<>>
        /\ submitted = IF tm THEN <<TimerOn>> ELSE <<>>
        /\ ndb = 1
        /\ keysLeft = MaxKeys

CmdSpec == CmdInit /\ [][ConnectedNext]_vars

\* The state of a connected session after n submissions, "." and ";" in turn and
\* "." last, each typed with one key and completed before the next; n is one short
\* of the capacity of the history, or the capacity.
Filled(n) == [k \in 1..n |-> IF (n - k) % 2 = 0 THEN <<".">> ELSE <<";">>]

HistInit ==
    \E n \in {HISTORY_LENGTH - 1, HISTORY_LENGTH} :
        /\ settings = [timer |-> FALSE]
        /\ runtime = "Some"
        /\ input = start_new
        /\ input_enabled = TRUE
        /\ input_clock = 2 * n
        /\ history = Filled(n)
        /\ db = 1
        /\ db_conn = 1
        /\ tasks = <<>>
        /\ out = <<W(""), Wa("Unknown command: ", <<".">>)>> \o exit_output
        /\ fault = "none"
        /\ step = "on_command: exit"
        /\ done = Filled(n)
        /\ submitted = Filled(n)
        /\ ndb = 1
        /\ keysLeft = MaxKeys

HistSpec == HistInit /\ [][ConnectedNext]_vars

(***************************************************************************)
(* The attachment of engines alone: the calls of the host other than key   *)
(* events, and the polls of the configure_database futures.  on_key and    *)
(* the tasks it starts write neither db nor db_conn.                       *)
(***************************************************************************)
AttachHost ==
    \/ resume_after_input
    \/ \E d \in 1..(MaxAttach + 1) : configure_database(d) /\ (db_conn # 0 \/ d <= MaxAttach)

AttachNext ==
    \/ attach
    \/ AttachHost
    \/ \E i \in DOMAIN tasks : AttachStep(i)

AttachSpec == Init /\ [][AttachNext]_vars

(***************************************************************************)
(* The session while a query is awaiting run_query and the host has called *)
(* resume_after_input.                                                     *)
(***************************************************************************)
\* The states in which the query ";" was submitted at the first prompt, or at the
\* second prompt after ".timer on", is suspended at run_query, the host has called
\* resume_after_input, and a command line has just been typed.
BusyInit ==
    \E line \in CommandLines, tm \in BOOLEAN :
        /\ settings = [timer |-> tm]
        /\ runtime = "Some"
        /\ input = [text |-> line, marked |-> FALSE, hl |-> <<>>]
        /\ input_enabled = TRUE
        /\ input_clock = Len(line) + 2 + (IF tm THEN Len(TimerOn) + 1 ELSE 0)
        /\ history = IF tm THEN <<TimerOn>> ELSE <<>>
        /\ db = 1
        /\ db_conn = 1
        /\ tasks = <<Task("on_sql", "run_query", <<";">>, 0, 1, tm)>>
        /\ out = <<FlushLine>>
        /\ fault = "none"
        /\ step = "on_key: other key, no highlight"
        /\ done = IF tm THEN <<TimerOn>> ELSE <<>>
        /\ submitted = (IF tm THEN <<TimerOn>> ELSE <<>>) \o <<<<";">>>>
        /\ ndb = 1
        /\ keysLeft = MaxKeys

BusySpec == BusyInit /\ [][ConnectedNext]_vars

(***************************************************************************)
(* Properties                                                              *)
(***************************************************************************)
Min(a, b) == IF a < b THEN a ELSE b

\* the foreground operations that have been started and have not ended
InFlight == {i \in DOMAIN tasks : tasks[i].kind \in Foreground}

\* task i ends in this step
Ends(i) == tasks' = Remove(tasks, i)

Written(line, o) == \E k \in DOMAIN o : o[k] = line

\* C1: at most one foreground operation (on_command or on_sql task) is in flight in
\* any reachable state, and input is never enabled while one is in flight.
C1_SingleFlight ==
    /\ Cardinality(InFlight) <= 1
    /\ input_enabled => InFlight = {}

\* C2: a highlight request whose captured generation differs from input_clock when
\* its tokenize call returns changes no session state and writes nothing; the
\* markup of the buffer changes only by a request whose captured generation equals
\* input_clock, and then to the tokens of that request.
C2_StaleHighlightSuppressed ==
    [][ /\ \A i \in DOMAIN tasks :
              (tasks[i].kind = "highlight_input" /\ Ends(i) /\ tasks[i].clock # input_clock)
              => (UNCHANGED session /\ out' = <<>>)
        /\ (input'.marked /\ <<input'.marked, input'.hl>> # <<input.marked, input.hl>>)
           => \E i \in DOMAIN tasks :
                 /\ tasks[i].kind = "highlight_input"
                 /\ Ends(i)
                 /\ tasks[i].clock = input_clock
                 /\ input' = highlight_sql(input, tokenize(tasks[i].text))
      ]_vars

\* C2 witness: a request has just resumed after the generation moved on, while the
\* buffer holds text.
C2_Witness ==
    /\ step = "highlight_input: stale"
    /\ input.text # <<>>

\* C3: a foreground operation ends only by its exit action: the step in which an
\* on_command or on_sql task ends appends its text to the history, starts a new
\* prompt and enables input, and raises no fault, whatever the engine call it
\* awaited returned.
C3_GuaranteedExit ==
    [][ \A i \in DOMAIN tasks :
           (tasks[i].kind \in Foreground /\ Ends(i))
           => /\ history' = history_push(history, tasks[i].text)
              /\ input' = start_new
              /\ input_enabled'
              /\ fault' = "none"
      ]_vars

\* a can be obtained from b by deleting entries
RECURSIVE IsSubseq(_, _)
IsSubseq(a, b) ==
    IF a = <<>> THEN TRUE
    ELSE IF b = <<>> THEN FALSE
    ELSE IF Head(a) = Head(b) THEN IsSubseq(Tail(a), Tail(b))
    ELSE IsSubseq(a, Tail(b))

\* the history holds the texts of the last min(N, HISTORY_LENGTH) exit actions run,
\* in the order in which they ran, and never more than HISTORY_LENGTH of them
HistoryRing ==
    /\ Len(history) = Min(Len(done), HISTORY_LENGTH)
    /\ history = SubSeq(done, Len(done) - Len(history) + 1, Len(done))
    /\ Len(history) <= HISTORY_LENGTH

\* an exit action has run with the history at capacity and evicted the oldest entry
HistoryRingEvicted ==
    /\ Len(done) = HISTORY_LENGTH + 1
    /\ Len(history) = HISTORY_LENGTH
    /\ history[1] = done[2]
    /\ history[HISTORY_LENGTH] = done[HISTORY_LENGTH + 1]

\* C4: after N completed submissions the history holds min(N, HISTORY_LENGTH)
\* entries, never more than HISTORY_LENGTH, and they are the texts of the most
\* recent completed submissions in the order in which they were submitted.
C4_HistoryInSubmissionOrder ==
    /\ HistoryRing
    /\ IsSubseq(done, submitted)

\* C5: input_clock never decreases and is never reset; a step changes it only by
\* +1, and only if the step is on_key accepting an event (input enabled, a keydown).
C5_GenerationMonotonic ==
    [][ \/ input_clock' = input_clock
        \/ /\ input_clock' = input_clock + 1
           /\ input_enabled
           /\ \E e \in Events : e.type = "keydown" /\ on_key(e)
      ]_vars

\* C5 witness: a query has completed and the prompt has started a new buffer, and
\* the generation still counts the keys typed before.
C5_Witness ==
    /\ step = "on_sql: exit"
    /\ input = start_new
    /\ input_clock >= 2

\* C6: a key event delivered while input is disabled, or whose type is not
\* "keydown", changes no session state (buffer, generation, input_enabled, history,
\* settings), starts no task and writes nothing.
C6_DroppedEventsNoOp ==
    [][ \A e \in Events :
           (on_key(e) /\ (~input_enabled \/ e.type # "keydown"))
           => (UNCHANGED <<session, tasks>> /\ out' = <<>> /\ fault' = "none")
      ]_vars

\* C6 witness: a key event has just been dropped while a foreground operation is in
\* flight and input is disabled.
C6_Witness ==
    /\ step = "on_key: dropped"
    /\ ~input_enabled
    /\ InFlight # {}

\* C7: configure_database called while a connection is stored writes
\* "Error: Database already set!" and leaves the engine handle, the connection,
\* the tasks (no connect is started), input_enabled and the buffer unchanged.
C7_AttachWhileConnectedRejected ==
    [][ \A d \in 1..(MaxDb + 1) :
           (configure_database(d) /\ db_conn # 0)
           => /\ out' = <<W("Error: Database already set!")>>
              /\ UNCHANGED <<db, db_conn, tasks, input_enabled, input>>
      ]_vars

\* C7 witness: configure_database has just been rejected.
C7_Witness ==
    /\ step = "configure_database: rejected"
    /\ db_conn # 0
    /\ db = db_conn

\* C8: the step that runs .clear clears the terminal and draws the prompt once and
\* does not run the exit action: the history is unchanged and nothing is written
\* after the prompt that clear drew.
C8_ClearSkipsExitAction ==
    [][ \A i \in DOMAIN tasks :
           (on_command(i) /\ command_name(tasks[i].text) = DotClear)
           => /\ history' = history
              /\ out' = <<W("")>> \o clear_output
      ]_vars

\* C9: .timer with the argument "on" sets the timer and writes "Timer enabled", with
\* "off" clears it and writes "Timer disabled", and with any other argument leaves
\* the setting unchanged and writes the usage line.
C9_TimerRouting ==
    [][ \A i \in DOMAIN tasks :
           (on_command(i) /\ command_name(tasks[i].text) = DotTimer)
           => IF command_args(tasks[i].text) = <<"o", "n">>
              THEN settings'.timer /\ Written(W("Timer enabled"), out')
              ELSE IF command_args(tasks[i].text) = <<"o", "f", "f">>
              THEN ~settings'.timer /\ Written(W("Timer disabled"), out')
              ELSE settings' = settings /\ Written(W("Usage: .timer [on/off]"), out')
      ]_vars

\* C10: a highlight trigger while no engine is attached raises no fault and starts
\* no task, and a highlight request whose tokenize call fails changes no session
\* state, writes nothing and raises no fault.
C10_BestEffortHighlight ==
    [][ /\ \A e \in Events :
              (on_key(e) /\ input_enabled /\ e.type = "keydown" /\ e.key \in Chars /\ db = 0)
              => (fault' = "none" /\ tasks' = tasks)
        /\ \A i \in DOMAIN tasks :
              highlight_resume(i, FALSE)
              => (UNCHANGED session /\ out' = <<>> /\ fault' = "none")
      ]_vars

\* C11: the first step of a query submitted while no connection is stored writes
\* "Error: connection not set" and ends the task there, before any engine call, by
\* the exit action: text appended to the history, prompt drawn, input enabled.
C11_QueryWithoutConnection ==
    [][ \A i \in DOMAIN tasks :
           (tasks[i].kind = "on_sql" /\ tasks[i].pc = "spawned" /\ db_conn = 0
               /\ tasks' # tasks)
           => /\ Ends(i)
              /\ out' = <<W(""), W("Error: connection not set"), W(""), PromptLine>>
              /\ history' = history_push(history, tasks[i].text)
              /\ input' = start_new
              /\ input_enabled'
              /\ fault' = "none"
      ]_vars

\* C11 witness: a query has just ended with the error while an engine handle is
\* stored and no connection is.
C11_Witness ==
    /\ step = "on_sql: exit"
    /\ db_conn = 0
    /\ db # 0
    /\ Written(W("Error: connection not set"), out)
    /\ input_enabled

CRLF == <<"\r", "\n">>

\* C12: when run_query returns, a successful query writes the table and then an
\* elapsed line if and only if the timer setting was on when the query was
\* submitted; a failed query writes one "Error: <message>" output with newlines
\* translated to CRLF, no table and no elapsed line; input is enabled afterwards.
C12_QueryOutcomeRendering ==
    [][ \A i \in DOMAIN tasks : \A ok \in BOOLEAN, msg \in ErrorMessages :
           on_sql_resume(i, ok, msg)
           => /\ out' = (IF ok
                         THEN <<W("<table>")>> \o
                              (IF tasks[i].timer THEN <<W("Elapsed: <measured>")>> ELSE <<>>)
                         ELSE <<Wa("Error: ", <<"e", "\r", "\n", "r">> \o CRLF)>>)
                        \o <<W(""), PromptLine>>
              /\ input_enabled'
      ]_vars

\* C13: in the state of a freshly created session, before any attachment or other
\* operation, input_enabled is true.
C13_InitiallyIdle == step = "default" => input_enabled

\* C13 as amended: in the state of a freshly created session input_enabled is
\* false, and it becomes true only in a step that draws the prompt; until then
\* every key event is dropped.
C13_InitiallyDisabled ==
    [][ /\ step = "default" => ~input_enabled
        /\ (~input_enabled /\ input_enabled') => Written(PromptLine, out')
        /\ \A e \in Events :
              (on_key(e) /\ ~input_enabled)
              => (UNCHANGED <<session, tasks>> /\ step' = "on_key: dropped")
      ]_vars

\* C13 witness: the session is attached, no prompt has been drawn yet, and a
\* keydown event has just been dropped.
C13_Witness ==
    /\ step = "on_key: dropped"
    /\ ~input_enabled
    /\ input_clock = 0
    /\ db = 0
    /\ history = <<>>

\* the step starts a task of the given kind for the text, not yet polled
Starts(kind, text) ==
    /\ Len(tasks') = Len(tasks) + 1
    /\ SubSeq(tasks', 1, Len(tasks)) = tasks
    /\ tasks'[Len(tasks')].kind = kind
    /\ tasks'[Len(tasks')].text = text
    /\ tasks'[Len(tasks')].pc = "spawned"

\* C14: an accepted Enter increments input_clock and has exactly one of three
\* outcomes: if the trimmed text starts with "." input is disabled and a command is
\* started with the raw text, even if the text ends with ";"; otherwise if the
\* trimmed text ends with ";" input is disabled and a query is started; otherwise
\* the buffer takes a newline, input stays enabled and no task is started.  The
\* started task has not run a step when input is disabled.
C14_EnterClassification ==
    [][ \A e \in Events :
           (on_key(e) /\ input_enabled /\ e.type = "keydown" /\ e.key = "Enter")
           => LET text == input.text
                  t == trim(text)
              IN  /\ input_clock' = input_clock + 1
                  /\ IF t # <<>> /\ t[1] = "."
                     THEN ~input_enabled' /\ Starts("on_command", text) /\ input' = input
                     ELSE IF t # <<>> /\ t[Len(t)] = ";"
                     THEN ~input_enabled' /\ Starts("on_sql", text) /\ input' = input
                     ELSE /\ input_enabled'
                          /\ tasks' = tasks
                          /\ input'.text = Append(text, "\n")
      ]_vars

\* C14 witness: Enter has just started a command for a text that starts with "."
\* and ends with ";".
C14_Witness ==
    /\ step = "on_key: Enter, command"
    /\ tasks # <<>>
    /\ tasks[Len(tasks)].text = <<".", ";">>
    /\ tasks[Len(tasks)].pc = "spawned"
    /\ ~input_enabled

EditKeys == {"Enter", "Backspace"} \cup ArrowKeys

\* C15: a step issues a tokenize request only if it is on_key accepting a key that
\* is not Enter, Backspace or an arrow key, and the buffer text after the edit does
\* not start, after leading whitespace, with "."; the request is for that text.
\* An accepted Enter, Backspace or arrow key increments input_clock and issues no
\* tokenize request.
C15_HighlightTriggering ==
    [][ /\ NumHighlights' > NumHighlights
           => /\ input_enabled
              /\ \E e \in Events :
                    e.type = "keydown" /\ e.key \notin EditKeys /\ on_key(e)
              /\ LET t == trim_start(input'.text)
                 IN  t = <<>> \/ t[1] # "."
              /\ Len(tasks') = Len(tasks) + 1
              /\ SubSeq(tasks', 1, Len(tasks)) = tasks
              /\ tasks'[Len(tasks')].kind = "highlight_input"
              /\ tasks'[Len(tasks')].text = input'.text
        /\ \A e \in Events :
              (on_key(e) /\ input_enabled /\ e.type = "keydown" /\ e.key \in EditKeys)
              => (input_clock' = input_clock + 1 /\ NumHighlights' = NumHighlights)
      ]_vars

\* C15 witness: a key has just been accepted and a tokenize request issued for the
\* text of the buffer.
C15_Witness ==
    /\ step = "on_key: other key, highlight"
    /\ tasks # <<>>
    /\ tasks[Len(tasks)].kind = "highlight_input"
    /\ tasks[Len(tasks)].text = input.text
    /\ tasks[Len(tasks)].clock = input_clock

\* C16: a task suspended at an await on an engine call holds no guard on the
\* RwLock of the engine handle or of the connection handle.
C16_NoGuardAcrossAwait ==
    \A i \in DOMAIN tasks :
        tasks[i].pc \in EngineCalls => read_guards(tasks[i]) = {}

\* C17: when the connect call of configure_database fails, the call ends with the
\* error, stores no connection, draws no prompt and does not change input_enabled,
\* and the engine handle stays stored; a configure_database call made while no
\* connection is stored is accepted, not rejected.
C17_ConnectFailure ==
    [][ /\ \A i \in DOMAIN tasks :
              configure_database_connect(i, FALSE)
              => /\ step' = "configure_database: connect failed"
                 /\ UNCHANGED <<db, db_conn, input, input_enabled>>
                 /\ ~Written(PromptLine, out')
                 /\ db # 0
        /\ \A d \in 1..(MaxAttach + 1) :
              (configure_database(d) /\ db_conn = 0)
              => (step' = "configure_database: await" /\ db' = d)
      ]_vars

\* C17 witness: connect has just failed; the engine handle is stored, no connection
\* is, and input is disabled.
C17_Witness ==
    /\ step = "configure_database: connect failed"
    /\ db # 0
    /\ db_conn = 0
    /\ ~input_enabled
    /\ tasks = <<>>

\* C19: in every reachable state in which a connection is stored, it was opened on
\* the engine handle that is stored.
C19_ConnectionOnStoredEngine == db_conn # 0 => db_conn = db

\* C18: no mutable borrow of the session is requested while another borrow is
\* outstanding, also when a collaborator called inside a borrow calls back into
\* the session: the reentrancy fault is never raised.
C18_NonReentrantAccess == fault # BorrowMutError

\* C20: whenever a highlight request passes the generation check and applies its
\* tokens, the text of the buffer is the text the request captured for tokenize.
C20_HighlightAppliedToItsText ==
    [][ \A i \in DOMAIN tasks :
           (tasks[i].kind = "highlight_input" /\ Ends(i)
               /\ tasks[i].clock = input_clock /\ Written(FlushLine, out'))
           => input.text = tasks[i].text
      ]_vars

\* C21: in every reachable state, enabled input implies that an engine handle and
\* a connection handle are both stored, and a stored connection implies a stored
\* engine.
C21_InputOnlyWhileFullyAttached ==
    /\ input_enabled => (db # 0 /\ db_conn # 0)
    /\ db_conn # 0 => db # 0

\* the steps of configure_database, by the label each leaves in step
AttachmentSteps ==
    {"configure_database: rejected", "configure_database: await",
     "configure_database: panic", "configure_database: connected",
     "configure_database: connect failed"}

\* C21 (amended): a stored connection implies a stored engine, and whenever a step
\* of the attachment renders the prompt and enables input, an engine handle and a
\* connection handle are both stored after it; resume_after_input and the exit
\* actions it makes possible may enable input in the other attachment states.
C21_AttachmentEnablesInputAttached ==
    [][ /\ db_conn' # 0 => db' # 0
        /\ (step' \in AttachmentSteps /\ Written(PromptLine, out'))
              => (input_enabled' /\ db' # 0 /\ db_conn' # 0)
      ]_vars

\* an attachment has just completed: connection stored, prompt drawn, input enabled
C21_Witness ==
    /\ step = "configure_database: connected"
    /\ Written(PromptLine, out)
    /\ input_enabled
    /\ db # 0 /\ db_conn # 0

====
